---- MODULE Spec2Model ----
(***************************************************************************)
(* A model of cprogress.h (libcprogress): the format-string compiler       *)
(* cprogress_create, the line renderer cprogress_writeline, the task       *)
(* registry (start / abort / updatetitle / updatepercentage) and the       *)
(* render loop (cprogress_stillrunning, cprogress_render).                 *)
(*                                                                         *)
(* C strings are sequences of one-character strings; the terminator is     *)
(* the value NUL read one position past the last character.  size_t is an  *)
(* unsigned integer of SizeBits bits (arithmetic modulo 2^SizeBits).       *)
(* A float percentage is an integer number of hundredths (3100 = 31.00).   *)
(***************************************************************************)
EXTENDS Integers, Sequences, FiniteSets, TLC

(* ------------------------------ bounds -------------------------------- *)

\* longest format string of the exhaustively enumerated family
MaxFmtLen == 4
\* width of size_t in the model
SizeBits == 16
\* most directives of a format of the repeated-directive family
MaxDirectives == 16
\* longest format string of the exhaustively enumerated family that is rendered
MaxRenderFmtLen == 2

\* most cprogress_writeline calls on one session
MaxLineCalls == 1
\* tasks of the session of the task-registry machines
ThreadCount == 2
\* tasks of the session whose producers run concurrently with the render loop
ConcThreadCount == 1
\* most blocks malloc'ed for titles in one behaviour
MaxBlocks == 2
\* most emissions of one event that a behaviour records
MaxEvents == 2

(* ------------------------- program constants -------------------------- *)

CPROGRESS_UNDEF == -1
CPROGRESS_DISPLAYCHUNK_MAXLEN == 16

CPROGRESS_ERROR_OK == 0
CPROGRESS_ERROR_INVAL == 1
CPROGRESS_ERROR_BUFFUL == 2
CPROGRESS_ERROR_INTERNAL == 3

CPROGRESS_DISPLAYCHUNK_UNKNOWN == 0
CPROGRESS_DISPLAYCHUNK_LITERAL == 1
CPROGRESS_DISPLAYCHUNK_TITLE == 2
CPROGRESS_DISPLAYCHUNK_BAR == 3
CPROGRESS_DISPLAYCHUNK_PERCENTAGE == 4

CPROGRESS_EVENT_NONE == -1
CPROGRESS_EVENT_THREADSTART == 0
CPROGRESS_EVENT_THREADFINISH == 1
CPROGRESS_EVENT_FINISH == 2
CPROGRESS_EVENT_LENGTH == 3

CPROGRESS_TOKEN_UNKNOWN == 0
CPROGRESS_TOKEN_FMTBEGIN == 1
CPROGRESS_TOKEN_MARKAUTOSPAN == 2
CPROGRESS_TOKEN_NUMBER == 3
CPROGRESS_TOKEN_LITERAL_CHAR == 4

(* ------------------------------ C values ------------------------------ *)

SizeMod == 2 ^ SizeBits
SIZE_MAX == SizeMod - 1
\* conversion of an integer to size_t
SizeT(x) == x % SizeMod
\* CPROGRESS_UNDEF compared with or stored in a size_t
UNDEF_SZ == SizeT(CPROGRESS_UNDEF)

\* the string terminator, and the null pointer of an offset or block id
NUL == ""
NULLPTR == 0

\* s[i-1] of a C string held as a sequence: the terminator past the end
At(s, i) == IF i >= 1 /\ i <= Len(s) THEN s[i] ELSE NUL

\* an array or buffer pointer: null, or the items it points to
NullArr == [null |-> TRUE, items |-> <<>>]
Arr(items) == [null |-> FALSE, items |-> items]

Digits == {"0", "1", "2", "3", "4", "5", "6", "7", "8", "9"}
Lower == {"a", "b", "c", "d", "e", "f", "g", "h", "i", "j", "k", "l", "m",
          "n", "o", "p", "q", "r", "s", "t", "u", "v", "w", "x", "y", "z"}
Upper == {"A", "B", "C", "D", "E", "F", "G", "H", "I", "J", "K", "L", "M",
          "N", "O", "P", "Q", "R", "S", "T", "U", "V", "W", "X", "Y", "Z"}

DigitValue(ch) ==
  CASE ch = "0" -> 0 [] ch = "1" -> 1 [] ch = "2" -> 2 [] ch = "3" -> 3
    [] ch = "4" -> 4 [] ch = "5" -> 5 [] ch = "6" -> 6 [] ch = "7" -> 7
    [] ch = "8" -> 8 [] ch = "9" -> 9

DigitChar(n) ==
  CASE n = 0 -> "0" [] n = 1 -> "1" [] n = 2 -> "2" [] n = 3 -> "3"
    [] n = 4 -> "4" [] n = 5 -> "5" [] n = 6 -> "6" [] n = 7 -> "7"
    [] n = 8 -> "8" [] n = 9 -> "9"

Min(a, b) == IF a <= b THEN a ELSE b
Max(a, b) == IF a >= b THEN a ELSE b

RECURSIVE Repeat(_, _)
Repeat(ch, n) == IF n <= 0 THEN <<>> ELSE <<ch>> \o Repeat(ch, n - 1)

RECURSIVE Concat(_)
Concat(ss) == IF ss = <<>> THEN <<>> ELSE Head(ss) \o Concat(Tail(ss))

(* ------------------------------ stralloc ------------------------------ *)

\* cprogress_stralloc_create: malloc(size) of indeterminate content
\* (every byte reads as `garbage`); a failed malloc leaves buffer null, size 0
cprogress_stralloc_create(size, ok, garbage) ==
  [buffer |-> IF ok THEN Arr([k \in 1..size |-> garbage]) ELSE NullArr,
   length |-> 0,
   size |-> IF ok THEN size ELSE 0]

\* cprogress_stralloc_alloc: copies str[from .. from+len-1] (strncpy of len
\* characters, which stores no terminator) and returns the 1-based position
\* of the copy in the buffer, or NULLPTR
cprogress_stralloc_alloc(stralloc, str, from, len) ==
  LET actual_length == len + 1 IN
  IF stralloc.buffer.null
  THEN [ret |-> NULLPTR, stralloc |-> stralloc]
  ELSE IF stralloc.length + actual_length >= stralloc.size
  THEN [ret |-> NULLPTR, stralloc |-> stralloc]
  ELSE [ret |-> stralloc.length + 1,
        stralloc |->
          [stralloc EXCEPT
             !.buffer.items =
               [k \in 1..Len(@) |->
                  IF k > stralloc.length /\ k <= stralloc.length + len
                  THEN At(str, from + (k - stralloc.length) - 1)
                  ELSE @[k]],
             !.length = @ + actual_length]]

(* ------------------------------ tokenizer ----------------------------- *)

cprogress_isfmtbegin(ch) == ch = "$"
cprogress_ismarkautospan(ch) == ch = "="
cprogress_isnumber(ch) == ch \in Digits
cprogress_isliteral(ch) == ch \in Lower \cup Upper

cprogress_findchartokentype(ch) ==
  IF cprogress_isfmtbegin(ch) THEN CPROGRESS_TOKEN_FMTBEGIN
  ELSE IF cprogress_ismarkautospan(ch) THEN CPROGRESS_TOKEN_MARKAUTOSPAN
  ELSE IF cprogress_isnumber(ch) THEN CPROGRESS_TOKEN_NUMBER
  ELSE IF cprogress_isliteral(ch) THEN CPROGRESS_TOKEN_LITERAL_CHAR
  ELSE CPROGRESS_TOKEN_UNKNOWN

\* the NUMBER case of cprogress_peektoken's loop: the maximal digit run
RECURSIVE PeekNumber(_, _, _)
PeekNumber(str, i, token) ==
  IF At(str, i) # NUL
     /\ cprogress_findchartokentype(At(str, i)) = CPROGRESS_TOKEN_NUMBER
  THEN PeekNumber(str, i + 1,
         [token EXCEPT !.number = @ * 10 + DigitValue(At(str, i)),
                       !.read_length = @ + 1])
  ELSE token

\* cprogress_peektoken(str + i - 1)
cprogress_peektoken(str, i) ==
  LET type == IF At(str, i) = NUL THEN CPROGRESS_TOKEN_UNKNOWN
              ELSE cprogress_findchartokentype(At(str, i))
      token == [type |-> type, number |-> 0, ch |-> NUL, read_length |-> 0]
  IN IF type = CPROGRESS_TOKEN_NUMBER THEN PeekNumber(str, i, token)
     ELSE IF type \in {CPROGRESS_TOKEN_FMTBEGIN, CPROGRESS_TOKEN_MARKAUTOSPAN,
                       CPROGRESS_TOKEN_LITERAL_CHAR}
     THEN [token EXCEPT !.ch = At(str, i), !.read_length = 1]
     ELSE token

(* ------------------------------ instance ------------------------------ *)

\* a zero-initialised cprogress_displaychunk_t
ZeroChunk ==
  [type |-> CPROGRESS_DISPLAYCHUNK_UNKNOWN, fill_char |-> NUL,
   literal |-> NULLPTR, literal_length |-> 0, is_autospan |-> 0,
   span_width |-> 0, display_width |-> 0]

LiteralChunk(literal, literal_length) ==
  [ZeroChunk EXCEPT !.type = CPROGRESS_DISPLAYCHUNK_LITERAL,
                    !.literal = literal,
                    !.literal_length = literal_length,
                    !.span_width = UNDEF_SZ]

\* a zero-initialised cprogress_threadinfo_t with the given designators
ThreadInfo(is_valid, thread_index) ==
  [is_valid |-> is_valid, thread_index |-> thread_index, is_running |-> 0,
   title |-> NULLPTR, percentage |-> 0, is_just_stopped |-> 0]

\* the subscribers member of a cprogress_t that no initializer names: a null
\* function pointer (FALSE) per event type
NoSubscribers == [type \in 0..(CPROGRESS_EVENT_LENGTH - 1) |-> FALSE]

\* (cprogress_t) { .error = e }
ErrorSession(e) ==
  [error |-> e, has_autospan_element |-> 0, displaychunks_length |-> 0,
   displaychunks |-> NullArr,
   stralloc |-> [buffer |-> NullArr, length |-> 0, size |-> 0],
   is_running |-> 0, last_alive_thread_count |-> 0,
   threadinfos_length |-> 0, threadinfos |-> NullArr,
   subscribers |-> NoSubscribers]

\* The three blocks cprogress_create mallocs: "none" (the malloc failed or
\* was not made), "live", "freed", and "invalid" after a free of a block
\* that is not live; overrun says that a cprogress_threadinfo_foreach ran
\* past the end of the task block
NoBlocks ==
  [displaychunks |-> "none", stralloc |-> "none", threadinfos |-> "none",
   overrun |-> FALSE]

\* free(p) on one of the three blocks
FreeBlock(state) == IF state = "live" THEN "freed" ELSE "invalid"

\* malloc'ed task slots before their initialisation: every member reads as
\* the malloc'ed bytes do (zero when garbage is NUL, nonzero otherwise)
UninitThreadInfos(thread_count, garbage) ==
  [k \in 1..(thread_count + 1) |->
     ThreadInfo(IF garbage = NUL THEN 0 ELSE 1, 0)]

\* cprogress_destroy without the free of the task slots
cprogress_destroy_KeepThreadInfos(cp, blocks) ==
  [cp |-> [cp EXCEPT !.displaychunks = NullArr,
                     !.stralloc.buffer = NullArr],
   blocks |->
     [blocks EXCEPT
        !.displaychunks = IF cp.displaychunks.null THEN @ ELSE FreeBlock(@),
        !.stralloc = IF cp.stralloc.buffer.null THEN @ ELSE FreeBlock(@)]]

\* cprogress_destroy(&cprogress): the instance and the blocks after it.  The
\* loop over the task slots calls cprogress_threadinfo_abort on slots of the
\* block that is freed next; it stops at a slot whose is_valid is 0, and
\* runs past the block when there is none
cprogress_destroy(cp, blocks) ==
  LET sentinel == \E k \in 1..Len(cp.threadinfos.items) :
                        cp.threadinfos.items[k].is_valid = 0
  IN [cp |-> [cp EXCEPT !.displaychunks = NullArr,
                        !.stralloc.buffer = NullArr,
                        !.threadinfos = NullArr],
      blocks |->
        [displaychunks |-> IF cp.displaychunks.null THEN blocks.displaychunks
                           ELSE FreeBlock(blocks.displaychunks),
         stralloc |-> IF cp.stralloc.buffer.null THEN blocks.stralloc
                      ELSE FreeBlock(blocks.stralloc),
         threadinfos |-> IF cp.threadinfos.null THEN blocks.threadinfos
                         ELSE FreeBlock(blocks.threadinfos),
         overrun |-> blocks.overrun
                       \/ (~cp.threadinfos.null /\ ~sentinel)]]

cprogress_pushchunk(cp, displaychunk) ==
  IF cp.displaychunks_length >= CPROGRESS_DISPLAYCHUNK_MAXLEN - 1
  THEN [ret |-> 1, cp |-> cp]
  ELSE [ret |-> 0,
        cp |-> [cp EXCEPT !.displaychunks.items = Append(@, displaychunk),
                          !.displaychunks_length = @ + 1]]

\* DirectiveToken without the test of has_autospan_element: a second
\* auto-span marker is taken like the first
DirectiveToken_NoDuplicateCheck(d, token) ==
  IF token.type = CPROGRESS_TOKEN_MARKAUTOSPAN
  THEN [d EXCEPT !.displaychunk.is_autospan = 1,
                 !.has_autospan_element = 1,
                 !.chptr = @ + token.read_length]
  ELSE IF token.type = CPROGRESS_TOKEN_NUMBER
  THEN [d EXCEPT !.displaychunk.span_width = SizeT(token.number),
                 !.chptr = @ + token.read_length]
  ELSE IF token.type = CPROGRESS_TOKEN_LITERAL_CHAR
  THEN [d EXCEPT !.fmt_name = token.ch, !.chptr = @ + token.read_length]
  ELSE [d EXCEPT !.error = CPROGRESS_ERROR_INVAL]

\* one iteration of the directive token loop on the token just peeked;
\* d = [chptr, displaychunk, fmt_name, has_autospan_element, error]
DirectiveToken(d, token) ==
  IF token.type = CPROGRESS_TOKEN_MARKAUTOSPAN
  THEN IF d.has_autospan_element # 0
       THEN [d EXCEPT !.displaychunk.is_autospan = 1,
                      !.error = CPROGRESS_ERROR_INVAL]
       ELSE [d EXCEPT !.displaychunk.is_autospan = 1,
                      !.has_autospan_element = 1,
                      !.chptr = @ + token.read_length]
  ELSE IF token.type = CPROGRESS_TOKEN_NUMBER
  THEN [d EXCEPT !.displaychunk.span_width = SizeT(token.number),
                 !.chptr = @ + token.read_length]
  ELSE IF token.type = CPROGRESS_TOKEN_LITERAL_CHAR
  THEN [d EXCEPT !.fmt_name = token.ch, !.chptr = @ + token.read_length]
  ELSE [d EXCEPT !.error = CPROGRESS_ERROR_INVAL]

\* while (*chptr && !fmt_name) { ... }
RECURSIVE DirectiveTokens(_, _)
DirectiveTokens(fmt, d) ==
  IF d.error # CPROGRESS_ERROR_OK \/ At(fmt, d.chptr) = NUL \/ d.fmt_name # NUL
  THEN d
  ELSE DirectiveTokens(fmt, DirectiveToken(d, cprogress_peektoken(fmt, d.chptr)))

\* the width validation after the token loop: the error it returns, or OK.
\* displaychunk.type is still the zero of the initialiser here: the
\* conversion switch that sets it runs afterwards
WidthValidation(displaychunk) ==
  IF displaychunk.span_width # UNDEF_SZ /\ displaychunk.is_autospan # 0
  THEN CPROGRESS_ERROR_INVAL
  ELSE IF displaychunk.type = CPROGRESS_DISPLAYCHUNK_BAR
          /\ displaychunk.span_width = UNDEF_SZ
          /\ displaychunk.is_autospan = 0
  THEN CPROGRESS_ERROR_INVAL
  ELSE CPROGRESS_ERROR_OK

\* the conversion switch; chptr is at the conversion letter (or at the
\* character before the terminator when there is none)
ConversionSwitch(fmt, chptr, fmt_name, displaychunk) ==
  LET peeked_next_char == At(fmt, chptr + 1) IN
  IF fmt_name = "t"
  THEN [error |-> CPROGRESS_ERROR_OK, chptr |-> chptr,
        displaychunk |->
          [displaychunk EXCEPT !.type = CPROGRESS_DISPLAYCHUNK_TITLE]]
  ELSE IF fmt_name = "b"
  THEN IF peeked_next_char # NUL
       THEN [error |-> CPROGRESS_ERROR_OK, chptr |-> chptr + 1,
             displaychunk |->
               [displaychunk EXCEPT !.type = CPROGRESS_DISPLAYCHUNK_BAR,
                                    !.fill_char = peeked_next_char]]
       ELSE [error |-> CPROGRESS_ERROR_INVAL, chptr |-> chptr,
             displaychunk |->
               [displaychunk EXCEPT !.type = CPROGRESS_DISPLAYCHUNK_BAR]]
  ELSE IF fmt_name = "p"
  THEN [error |-> CPROGRESS_ERROR_OK, chptr |-> chptr,
        displaychunk |->
          [displaychunk EXCEPT !.type = CPROGRESS_DISPLAYCHUNK_PERCENTAGE]]
  ELSE [error |-> CPROGRESS_ERROR_INVAL, chptr |-> chptr,
        displaychunk |-> displaychunk]

\* "save previous literal if present" and "deal with tailing literal":
\* st = [cp, chptr, last_ch, literal, literal_length, error]
FlushLiteral(fmt, st) ==
  LET a == cprogress_stralloc_alloc(st.cp.stralloc, fmt, st.literal,
                                    st.literal_length)
      p == cprogress_pushchunk([st.cp EXCEPT !.stralloc = a.stralloc],
                               LiteralChunk(a.ret, st.literal_length))
  IN IF p.ret # 0
     THEN [st EXCEPT !.cp = p.cp, !.error = CPROGRESS_ERROR_BUFFUL]
     ELSE [st EXCEPT !.cp = p.cp, !.literal = NULLPTR, !.literal_length = 0]

\* the branch of the format loop taken at a `$` that begins a directive
DirectiveStep(fmt, st) ==
  LET s1 == IF st.literal # NULLPTR /\ st.literal_length # 0
            THEN FlushLiteral(fmt, st) ELSE st
      d == DirectiveTokens(fmt,
             [chptr |-> s1.chptr + 1,
              displaychunk |-> [ZeroChunk EXCEPT !.span_width = UNDEF_SZ],
              fmt_name |-> NUL,
              has_autospan_element |-> s1.cp.has_autospan_element,
              error |-> CPROGRESS_ERROR_OK])
      v == WidthValidation(d.displaychunk)
      c == ConversionSwitch(fmt, d.chptr - 1, d.fmt_name, d.displaychunk)
      p == cprogress_pushchunk(
             [s1.cp EXCEPT !.has_autospan_element = d.has_autospan_element],
             c.displaychunk)
  IN IF s1.error # CPROGRESS_ERROR_OK THEN s1
     ELSE IF d.error # CPROGRESS_ERROR_OK THEN [s1 EXCEPT !.error = d.error]
     ELSE IF v # CPROGRESS_ERROR_OK THEN [s1 EXCEPT !.error = v]
     ELSE IF c.error # CPROGRESS_ERROR_OK THEN [s1 EXCEPT !.error = c.error]
     ELSE IF p.ret # 0 THEN [s1 EXCEPT !.error = CPROGRESS_ERROR_BUFFUL]
     ELSE [s1 EXCEPT !.cp = p.cp, !.chptr = c.chptr + 1,
                     !.last_ch = At(fmt, c.chptr)]

\* for (chptr = fmt; *chptr; ++chptr) { ... last_ch = *chptr; }
RECURSIVE FormatLoop(_, _)
FormatLoop(fmt, st) ==
  IF st.error # CPROGRESS_ERROR_OK \/ At(fmt, st.chptr) = NUL THEN st
  ELSE IF cprogress_isfmtbegin(At(fmt, st.chptr))
          /\ ~cprogress_isfmtbegin(st.last_ch)
  THEN FormatLoop(fmt, DirectiveStep(fmt, st))
  ELSE FormatLoop(fmt,
         [st EXCEPT !.literal = IF @ = NULLPTR THEN st.chptr ELSE @,
                    !.literal_length = @ + 1,
                    !.last_ch = At(fmt, st.chptr),
                    !.chptr = @ + 1])

\* _cprogress_create_returnerror(e): cprogress_destroy on the local
\* instance, then the return of (cprogress_t) { .error = e }
CreateReturnError(cp, blocks0, e) ==
  [cp |-> ErrorSession(e), blocks |-> cprogress_destroy(cp, blocks0).blocks]

\* the push of the sentinel chunk and the return of the instance
CreateSentinel(fin, blocks0) ==
  IF fin.ret # 0
  THEN CreateReturnError(fin.cp, blocks0, CPROGRESS_ERROR_BUFFUL)
  ELSE [cp |-> fin.cp, blocks |-> blocks0]

\* what follows the format loop and its trailing literal, whose state is tl
CreateTail(tl, blocks0) ==
  IF tl.error # CPROGRESS_ERROR_OK
  THEN CreateReturnError(tl.cp, blocks0, tl.error)
  ELSE CreateSentinel(cprogress_pushchunk(tl.cp, ZeroChunk), blocks0)

\* "deal with tailing literal" on the state lp the format loop ended in
TrailingLiteral(fmt, lp) ==
  IF lp.error = CPROGRESS_ERROR_OK /\ lp.literal_length # 0
  THEN FlushLiteral(fmt, lp) ELSE lp

\* cprogress_create after its three mallocs, which gave the instance raw
CreateBody(fmt, thread_count, raw, blocks0) ==
  IF raw.displaychunks.null \/ raw.stralloc.buffer.null
     \/ raw.threadinfos.null
  THEN CreateReturnError(raw, blocks0, CPROGRESS_ERROR_INTERNAL)
  ELSE CreateTail(
         TrailingLiteral(fmt,
           FormatLoop(fmt,
             [cp |-> [raw EXCEPT !.threadinfos.items =
                        [k \in 1..(thread_count + 1) |->
                           IF k <= thread_count THEN ThreadInfo(1, k - 1)
                           ELSE ThreadInfo(0, 0)]],
              chptr |-> 1, last_ch |-> NUL, literal |-> NULLPTR,
              literal_length |-> 0, error |-> CPROGRESS_ERROR_OK])),
         blocks0)

\* cprogress_create(fmt, thread_count); mem says which of the three mallocs
\* succeed and what malloc'ed memory holds.  The result is the instance
\* returned and the state of the three blocks; every error return goes
\* through cprogress_destroy on the local instance
CreateCall(fmt, thread_count, mem) ==
  CreateBody(fmt, thread_count,
    [error |-> CPROGRESS_ERROR_OK, has_autospan_element |-> 0,
     displaychunks_length |-> 0,
     displaychunks |-> IF mem.displaychunks THEN Arr(<<>>) ELSE NullArr,
     stralloc |-> cprogress_stralloc_create(Len(fmt), mem.stralloc,
                                            mem.garbage),
     is_running |-> 1, last_alive_thread_count |-> 0,
     threadinfos_length |-> thread_count,
     threadinfos |->
       IF mem.threadinfos
       THEN Arr(UninitThreadInfos(thread_count, mem.garbage))
       ELSE NullArr,
     subscribers |-> NoSubscribers],
    [displaychunks |-> IF mem.displaychunks THEN "live" ELSE "none",
     stralloc |-> IF mem.stralloc THEN "live" ELSE "none",
     threadinfos |-> IF mem.threadinfos THEN "live" ELSE "none",
     overrun |-> FALSE])

\* the instance cprogress_create returns
cprogress_create(fmt, thread_count, mem) ==
  CreateCall(fmt, thread_count, mem).cp

(* ------------------------------ view basic ---------------------------- *)

\* a `const char *` argument: null, or the characters items[off], ... up to
\* the first NUL
NullStr == [null |-> TRUE, items |-> <<>>, off |-> 1]
Str(chars) == [null |-> FALSE, items |-> chars, off |-> 1]
\* a literal chunk's pointer into the arena
ArenaStr(stralloc, literal) ==
  IF literal = NULLPTR THEN NullStr
  ELSE [null |-> FALSE, items |-> stralloc.buffer.items, off |-> literal]
\* *(str + k)
CharAt(str, k) == At(str.items, str.off + k)

\* cprogress_charlen(str + k)
cprogress_charlen(str, k) ==
  IF str.null \/ CharAt(str, k) = NUL THEN 0 ELSE 1

\* cprogress_measurechar(str + k)
cprogress_measurechar(str, k) ==
  LET len == cprogress_charlen(str, k) IN IF len <= 1 THEN len ELSE 2

\* while (*str) { str += charlen(str); width += measurechar(str); }
RECURSIVE MeasureLoop(_, _, _)
MeasureLoop(str, k, width) ==
  IF CharAt(str, k) = NUL THEN width
  ELSE LET k2 == k + cprogress_charlen(str, k)
       IN MeasureLoop(str, k2, SizeT(width + cprogress_measurechar(str, k2)))

cprogress_measuredisplaychunk(displaychunk, str, autospan_width) ==
  IF displaychunk.span_width # UNDEF_SZ THEN displaychunk.span_width
  ELSE IF displaychunk.type = CPROGRESS_DISPLAYCHUNK_LITERAL
  THEN displaychunk.literal_length
  ELSE IF ~str.null THEN MeasureLoop(str, 0, 0)
  ELSE autospan_width

\* buf[idx] = ch on the bytes written so far (idx is 0-based)
Poke(out, idx, ch) ==
  IF idx < Len(out) THEN [out EXCEPT ![idx + 1] = ch]
  ELSE out \o Repeat(NUL, idx - Len(out)) \o <<ch>>

\* the do { ... } while (*ptr) loop of cprogress_snprintw;
\* s = [k, written_length, display_width, out], k = ptr - literal
RECURSIVE SnprintwCopy(_, _, _, _)
SnprintwCopy(buf_len, literal, alloc_width, s) ==
  LET char_length == cprogress_charlen(literal, s.k)
      after_length == s.written_length + char_length
      after_width == s.display_width + cprogress_measurechar(literal, s.k)
      s2 == [k |-> s.k + char_length,
             written_length |-> after_length,
             display_width |-> after_width,
             out |-> IF char_length = 1
                     THEN Poke(s.out, s.written_length, CharAt(literal, s.k))
                     ELSE s.out]
  IN IF after_length > buf_len THEN s
     ELSE IF alloc_width # UNDEF_SZ /\ after_width > alloc_width THEN s
     ELSE IF CharAt(literal, s2.k) # NUL
     THEN SnprintwCopy(buf_len, literal, alloc_width, s2)
     ELSE s2

\* the padding loop of cprogress_snprintw
RECURSIVE SnprintwPad(_, _, _)
SnprintwPad(buf_len, alloc_width, s) ==
  IF s.written_length < buf_len /\ s.display_width < alloc_width
  THEN SnprintwPad(buf_len, alloc_width,
         [s EXCEPT !.out = Poke(@, s.display_width, " "),
                   !.display_width = @ + 1,
                   !.written_length = @ + 1])
  ELSE s

\* the result of a write primitive: the bytes stored at buf[0..] and the
\* returned length
cprogress_snprintw(buf_len, literal, alloc_width) ==
  LET c == SnprintwCopy(buf_len, literal, alloc_width,
             [k |-> 0, written_length |-> 0, display_width |-> 0,
              out |-> <<>>])
      p == IF alloc_width # UNDEF_SZ /\ c.display_width < alloc_width
           THEN SnprintwPad(buf_len, alloc_width, c) ELSE c
  IN [out |-> p.out, n |-> p.written_length]

cprogress_writeliteral(buf_len, literal, alloc_width) ==
  IF alloc_width = UNDEF_SZ /\ literal.null THEN [out |-> <<>>, n |-> 0]
  ELSE IF literal.null
  THEN LET n == Min(buf_len, alloc_width)
       IN [out |-> Repeat(" ", n), n |-> n]
  ELSE cprogress_snprintw(buf_len, literal, alloc_width)

\* digits of a natural number
RECURSIVE IntDigits(_)
IntDigits(n) ==
  IF n < 10 THEN <<DigitChar(n)>>
  ELSE IntDigits(n \div 10) \o <<DigitChar(n % 10)>>

\* cprogress_sprintpercentage(buf, 6, percentage): "%.2f" cut by snprintf
\* to the 5 characters that fit before the terminator
cprogress_sprintpercentage(percentage) ==
  LET a == IF percentage < 0 THEN 0 - percentage ELSE percentage
      s == (IF percentage < 0 THEN <<"-">> ELSE <<>>)
           \o IntDigits(a \div 100)
           \o <<".", DigitChar((a % 100) \div 10), DigitChar(a % 10)>>
  IN SubSeq(s, 1, Min(Len(s), 5))

cprogress_writepercentage(buf_len, percentage, alloc_width) ==
  cprogress_writeliteral(buf_len, Str(cprogress_sprintpercentage(percentage)),
                         alloc_width)

\* cprogress_writeprogressbar(buf, buf_len, fill_char, percentage): it
\* stores left_length fill characters, then spaces up to buf_len, and
\* returns buf_len.  The bytes are given by BarBytes
cprogress_writeprogressbar(buf_len, fill_char, percentage) ==
  [n |-> buf_len,
   left_length |-> (buf_len * percentage) \div 10000,
   fill_char |-> fill_char]

\* the first count bytes stored by a cprogress_writeprogressbar call
BarBytes(bar, count) ==
  LET c == Min(count, bar.n) IN
  Repeat(bar.fill_char, Min(c, Max(bar.left_length, 0)))
    \o Repeat(" ", c - Min(c, Max(bar.left_length, 0)))

\* the chunks a cprogress_displaychunk_foreach visits: up to the sentinel
RECURSIVE ChunksBeforeSentinel(_, _)
ChunksBeforeSentinel(items, k) ==
  IF k > Len(items) \/ items[k].type = CPROGRESS_DISPLAYCHUNK_UNKNOWN THEN k - 1
  ELSE ChunksBeforeSentinel(items, k + 1)

\* the str argument cprogress_writeline gives for a chunk
ChunkSource(cp, displaychunk, title, percentage_string) ==
  IF displaychunk.type = CPROGRESS_DISPLAYCHUNK_LITERAL
  THEN ArenaStr(cp.stralloc, displaychunk.literal)
  ELSE IF displaychunk.type = CPROGRESS_DISPLAYCHUNK_TITLE THEN title
  ELSE IF displaychunk.type = CPROGRESS_DISPLAYCHUNK_BAR THEN NullStr
  ELSE Str(percentage_string)

\* the measure pass: m = [items, taken_display_width]
RECURSIVE MeasurePass(_, _, _, _, _, _)
MeasurePass(cp, title, percentage_string, k, n, m) ==
  IF k > n THEN m
  ELSE LET displaychunk == m.items[k]
           display_width ==
             cprogress_measuredisplaychunk(displaychunk,
               ChunkSource(cp, displaychunk, title, percentage_string),
               UNDEF_SZ)
       IN IF displaychunk.is_autospan # 0
          THEN MeasurePass(cp, title, percentage_string, k + 1, n, m)
          ELSE MeasurePass(cp, title, percentage_string, k + 1, n,
                 [items |-> [m.items EXCEPT ![k].display_width = display_width],
                  taken_display_width |->
                    SizeT(m.taken_display_width + display_width)])

\* one chunk of the write pass: w = [out, ptr, avail_length, hi], where out
\* holds the bytes stored inside buf[0 .. buf_len-1], ptr is the cursor as an
\* offset from buf and hi is one past the highest offset written
WriteChunk(cp, buf_len, displaychunk, title, percentage_string, percentage, autospan_width, w) ==
  LET display_width == IF displaychunk.is_autospan # 0 THEN autospan_width
                       ELSE displaychunk.display_width
      lit == cprogress_writeliteral(w.avail_length,
               ChunkSource(cp, displaychunk, title, percentage_string),
               display_width)
      bar == cprogress_writeprogressbar(display_width, displaychunk.fill_char,
                                        percentage)
      isbar == displaychunk.type = CPROGRESS_DISPLAYCHUNK_BAR
      print_length == IF isbar THEN bar.n ELSE lit.n
      inside == IF w.ptr >= buf_len THEN 0
                ELSE Min(print_length, buf_len - w.ptr)
      bytes == IF isbar THEN BarBytes(bar, inside)
               ELSE SubSeq(lit.out, 1, inside)
  IN [out |-> IF inside > 0 THEN w.out \o bytes ELSE w.out,
      ptr |-> w.ptr + print_length,
      avail_length |-> SizeT(w.avail_length - print_length),
      hi |-> IF print_length > 0 THEN Max(w.hi, w.ptr + print_length)
             ELSE w.hi]

RECURSIVE WritePass(_, _, _, _, _, _, _, _, _)
WritePass(cp, buf_len, items, title, percentage_string, percentage, autospan_width, k, w) ==
  IF k > Len(items) \/ items[k].type = CPROGRESS_DISPLAYCHUNK_UNKNOWN
     \/ w.avail_length <= 0
  THEN w
  ELSE WritePass(cp, buf_len, items, title, percentage_string, percentage,
                 autospan_width, k + 1,
                 WriteChunk(cp, buf_len, items[k], title, percentage_string,
                            percentage, autospan_width, w))

\* cprogress_writeline(cprogress, buf, buf_len, console_width, title,
\* percentage) on a non-null buf: the chunks with their display_width cache
\* and what the write pass stored
cprogress_writeline(cp, buf_len, console_width, title, percentage) ==
  LET percentage_string == cprogress_sprintpercentage(percentage)
      n == ChunksBeforeSentinel(cp.displaychunks.items, 1)
      m == MeasurePass(cp, title, percentage_string, 1, n,
             [items |-> cp.displaychunks.items, taken_display_width |-> 0])
      autospan_width == IF console_width > m.taken_display_width
                        THEN console_width - m.taken_display_width ELSE 0
      w0 == [out |-> <<>>, ptr |-> 0, avail_length |-> buf_len, hi |-> 0]
      w == WritePass(cp, buf_len, m.items, title, percentage_string,
                     percentage, autospan_width, 1, w0)
  IN IF console_width <= 1
     THEN [returned_early |-> TRUE, items |-> cp.displaychunks.items,
           taken_display_width |-> 0, autospan_width |-> 0,
           out |-> <<>>, ptr |-> 0, avail_length |-> buf_len, hi |-> 0]
     ELSE [returned_early |-> FALSE, items |-> m.items,
           taken_display_width |-> m.taken_display_width,
           autospan_width |-> autospan_width,
           out |-> w.out, ptr |-> w.ptr, avail_length |-> w.avail_length,
           hi |-> w.hi]

(* -------------------------------- heap -------------------------------- *)

\* The heap of title strings is a sequence of blocks; a `char *` is the
\* index of its block, NULLPTR is 0.  A block keeps the size asked of malloc,
\* the bytes stored from its start, and whether it was freed.  Block ids
\* are never reused, so a pointer to a freed block stays recognisable.

\* strlen(str)
RECURSIVE StrlenFrom(_, _)
StrlenFrom(str, k) == IF CharAt(str, k) = NUL THEN k ELSE StrlenFrom(str, k + 1)
strlen(str) == StrlenFrom(str, 0)

\* cprogress_strdup: malloc(strlen(str)), then strcpy, which stores the
\* characters and the terminator
cprogress_strdup(heap, str) ==
  IF str.null THEN [ret |-> NULLPTR, heap |-> heap]
  ELSE [ret |-> Len(heap) + 1,
        heap |-> Append(heap,
                   [size |-> strlen(str),
                    bytes |-> [k \in 1..(strlen(str) + 1) |-> CharAt(str, k - 1)],
                    freed |-> FALSE])]

\* free(p)
Free(heap, p) == [heap EXCEPT ![p].freed = TRUE]

\* the string a title pointer is read as
TitleStr(heap, p) ==
  IF p = NULLPTR THEN NullStr
  ELSE Str(SubSeq(heap[p].bytes, 1, strlen(Str(heap[p].bytes))))

(* ----------------------- task/thread controller ----------------------- *)

cprogress_threadinfo_start(threadinfo, heap) ==
  [threadinfo |-> [threadinfo EXCEPT !.title = NULLPTR, !.percentage = 0,
                                     !.is_running = 1],
   heap |-> IF threadinfo.title # NULLPTR THEN Free(heap, threadinfo.title)
            ELSE heap]

cprogress_threadinfo_abort(threadinfo) ==
  [threadinfo EXCEPT !.is_running = 0, !.is_just_stopped = 1]

\* the index test shared by the four per-thread entry points
IndexRejected(cp, thread_index) ==
  thread_index < 0 \/ thread_index >= cp.threadinfos_length

\* &cprogress_getthreadinfo(cp, thread_index) when cp->threadinfos is null:
\* for index 0 it is the null pointer, on which the cprogress_threadinfo_
\* functions return at once; for any other index it is a non-null address
\* inside no object, which they read and write (WildSlot).  What such an
\* access does to the process is not modelled: the instance is left as it
\* is, and the behaviour may stop there
NullSlot(cp, thread_index) == cp.threadinfos.null /\ thread_index = 0
WildSlot(cp, thread_index) ==
  /\ ~IndexRejected(cp, thread_index)
  /\ cp.threadinfos.null
  /\ thread_index # 0

\* cprogress_getthreadinfo(cp, thread_index), and its assignment
GetThreadInfo(cp, thread_index) == cp.threadinfos.items[thread_index + 1]
SetThreadInfo(cp, thread_index, threadinfo) ==
  [cp EXCEPT !.threadinfos.items[thread_index + 1] = threadinfo]

cprogress_startthread(cp, heap, thread_index) ==
  IF IndexRejected(cp, thread_index) \/ cp.threadinfos.null
  THEN [cp |-> cp, heap |-> heap]
  ELSE LET r == cprogress_threadinfo_start(GetThreadInfo(cp, thread_index),
                                           heap)
       IN [cp |-> SetThreadInfo(cp, thread_index, r.threadinfo),
           heap |-> r.heap]

cprogress_abortthread(cp, thread_index) ==
  IF IndexRejected(cp, thread_index) \/ cp.threadinfos.null THEN cp
  ELSE SetThreadInfo(cp, thread_index,
         cprogress_threadinfo_abort(GetThreadInfo(cp, thread_index)))

(* ---------------------------- data provider --------------------------- *)

cprogress_threadinfo_updatetitle(threadinfo, heap, title) ==
  IF threadinfo.is_running = 0
  THEN [threadinfo |-> threadinfo, heap |-> heap]
  ELSE LET h1 == IF threadinfo.title # NULLPTR
                 THEN Free(heap, threadinfo.title) ELSE heap
           d == cprogress_strdup(h1, title)
       IN [threadinfo |-> [threadinfo EXCEPT !.title = d.ret],
           heap |-> d.heap]

\* A float percentage is modelled by its value in hundredths; NAN stands
\* for a NaN, on which every ordered comparison of C is false.
NAN == 99999999
FloatGE(a, b) == a # NAN /\ b # NAN /\ a >= b
FloatLT(a, b) == a # NAN /\ b # NAN /\ a < b

cprogress_threadinfo_updatepercentage(threadinfo, percentage) ==
  IF threadinfo.is_running = 0 THEN threadinfo
  ELSE LET p1 == IF FloatGE(percentage, 10000) THEN 10000 ELSE percentage
           t1 == IF FloatGE(percentage, 10000)
                 THEN cprogress_threadinfo_abort(threadinfo) ELSE threadinfo
           p2 == IF FloatLT(p1, 0) THEN 0 ELSE p1
       IN [t1 EXCEPT !.percentage = p2]

cprogress_updatethread_title(cp, heap, thread_index, title) ==
  IF IndexRejected(cp, thread_index) \/ cp.threadinfos.null
  THEN [cp |-> cp, heap |-> heap]
  ELSE LET r == cprogress_threadinfo_updatetitle(
                  GetThreadInfo(cp, thread_index), heap, title)
       IN [cp |-> SetThreadInfo(cp, thread_index, r.threadinfo),
           heap |-> r.heap]

cprogress_updatethread_percentage(cp, thread_index, percentage) ==
  IF IndexRejected(cp, thread_index) \/ cp.threadinfos.null THEN cp
  ELSE SetThreadInfo(cp, thread_index,
         cprogress_threadinfo_updatepercentage(
           GetThreadInfo(cp, thread_index), percentage))

(* --------------------------- event controller ------------------------- *)

\* the emissions recorded: of CPROGRESS_EVENT_FINISH, and of
\* CPROGRESS_EVENT_THREADFINISH per thread index
NoEvents == [finish |-> 0, threadfinish |-> [i \in 0..(ThreadCount - 1) |-> 0]]

\* the emissions recorded in all
EventTotal(ev) ==
  LET RECURSIVE Sum(_)
      Sum(i) == IF i < 0 THEN 0 ELSE ev.threadfinish[i] + Sum(i - 1)
  IN ev.finish + Sum(ThreadCount - 1)

cprogress_subscribeevent(cp, type) ==
  IF type # CPROGRESS_EVENT_NONE /\ type < CPROGRESS_EVENT_LENGTH
  THEN [cp EXCEPT !.subscribers[type] = TRUE]
  ELSE cp

\* cprogress_emitevent: the test of type and thread_index, then the call of
\* the subscriber of that event if there is one; the subscriber counts
cprogress_emitevent(cp, ev, type, thread_index) ==
  IF /\ \/ (type # CPROGRESS_EVENT_NONE /\ type < CPROGRESS_EVENT_LENGTH)
        \/ (thread_index > 0 /\ thread_index < cp.threadinfos_length)
        \/ thread_index = CPROGRESS_UNDEF
     /\ cp.subscribers[type]
  THEN IF type = CPROGRESS_EVENT_FINISH THEN [ev EXCEPT !.finish = @ + 1]
       ELSE IF type = CPROGRESS_EVENT_THREADFINISH
       THEN [ev EXCEPT !.threadfinish[thread_index] = @ + 1]
       ELSE ev
  ELSE ev

(* ---------------------------- view controller ------------------------- *)

\* the indexes a cprogress_threadinfo_foreach visits: up to the entry whose
\* is_valid is 0
RECURSIVE ValidBefore(_, _)
ValidBefore(items, k) ==
  IF k > Len(items) \/ items[k].is_valid = 0 THEN k - 1
  ELSE ValidBefore(items, k + 1)
ThreadIndexes(cp) == 0..(ValidBefore(cp.threadinfos.items, 1) - 1)

\* cprogress_startallthreads: cprogress_threadinfo_start on the slots from i
RECURSIVE StartFrom(_, _, _)
StartFrom(cp, heap, i) ==
  IF i \notin ThreadIndexes(cp) THEN [cp |-> cp, heap |-> heap]
  ELSE LET r == cprogress_threadinfo_start(GetThreadInfo(cp, i), heap)
       IN StartFrom(SetThreadInfo(cp, i, r.threadinfo), r.heap, i + 1)
cprogress_startallthreads(cp, heap) == StartFrom(cp, heap, 0)

cprogress_abort(cp) == [cp EXCEPT !.is_running = 0]

\* cprogress_stillrunning without the cprogress_abort of the poll that
\* finds every task idle
cprogress_stillrunning_NoIdleAbort(cp, ev) ==
  LET is_all_finished ==
        IF \E i \in ThreadIndexes(cp) :
             \/ GetThreadInfo(cp, i).is_running # 0
             \/ GetThreadInfo(cp, i).is_just_stopped # 0
        THEN 0 ELSE 1
      ev1 == IF cp.is_running = 0
             THEN cprogress_emitevent(cp, ev, CPROGRESS_EVENT_FINISH,
                                      CPROGRESS_UNDEF)
             ELSE ev
  IN [cp |-> cp, ev |-> ev1, ret |-> cp.is_running,
      is_all_finished |-> is_all_finished]

\* cprogress_stillrunning: the instance and the events after the call, the
\* value returned, and what the loop over the tasks found
cprogress_stillrunning(cp, ev) ==
  LET is_all_finished ==
        IF \E i \in ThreadIndexes(cp) :
             \/ GetThreadInfo(cp, i).is_running # 0
             \/ GetThreadInfo(cp, i).is_just_stopped # 0
        THEN 0 ELSE 1
      cp1 == IF is_all_finished # 0 THEN cprogress_abort(cp) ELSE cp
      ev1 == IF cp1.is_running = 0
             THEN cprogress_emitevent(cp1, ev, CPROGRESS_EVENT_FINISH,
                                      CPROGRESS_UNDEF)
             ELSE ev
  IN [cp |-> cp1, ev |-> ev1, ret |-> cp1.is_running,
      is_all_finished |-> is_all_finished]

\* the THREADFINISH emissions of the just-stopped pass, task by task
RECURSIVE EmitThreadFinishes(_, _, _, _)
EmitThreadFinishes(cp, ev, i, n) ==
  IF i >= n THEN ev
  ELSE EmitThreadFinishes(cp,
         IF GetThreadInfo(cp, i).is_just_stopped # 0
         THEN cprogress_emitevent(cp, ev, CPROGRESS_EVENT_THREADFINISH,
                                  GetThreadInfo(cp, i).thread_index)
         ELSE ev,
         i + 1, n)

\* the line cprogress_renderline is called for: the task, the title and
\* the percentage handed over, and whether it is the just-stopped pass
RenderedLine(heap, threadinfo, final) ==
  [thread_index |-> threadinfo.thread_index,
   title |-> TitleStr(heap, threadinfo.title),
   percentage |-> threadinfo.percentage, final |-> final,
   released |-> threadinfo.title # NULLPTR /\ heap[threadinfo.title].freed]

\* the lines of the tasks among 0 .. n-1 that satisfy Pick, in task order
RECURSIVE LinesOf(_, _, _, _, _)
LinesOf(cp, heap, i, n, final) ==
  IF i >= n THEN <<>>
  ELSE (IF (IF final THEN GetThreadInfo(cp, i).is_just_stopped
            ELSE GetThreadInfo(cp, i).is_running) # 0
        THEN <<RenderedLine(heap, GetThreadInfo(cp, i), final)>> ELSE <<>>)
       \o LinesOf(cp, heap, i + 1, n, final)

\* cprogress_render without the clearing of is_just_stopped
cprogress_render_KeepFlag(cp, heap, ev) ==
  LET n == Cardinality(ThreadIndexes(cp))
      alive_thread_count ==
        Cardinality({i \in ThreadIndexes(cp) :
                       GetThreadInfo(cp, i).is_running # 0})
  IN [cp |-> [cp EXCEPT !.last_alive_thread_count = alive_thread_count],
      ev |-> EmitThreadFinishes(cp, ev, 0, n),
      lines |-> LinesOf(cp, heap, 0, n, TRUE)
                  \o LinesOf(cp, heap, 0, n, FALSE)]

\* cprogress_render: the alive count, the just-stopped pass (flag cleared,
\* final line, THREADFINISH), the running pass, last_alive_thread_count
cprogress_render(cp, heap, ev) ==
  LET n == Cardinality(ThreadIndexes(cp))
      alive_thread_count ==
        Cardinality({i \in ThreadIndexes(cp) :
                       GetThreadInfo(cp, i).is_running # 0})
      cleared ==
        [cp EXCEPT !.threadinfos.items =
           [k \in 1..Len(@) |->
              IF k <= n /\ @[k].is_just_stopped # 0
              THEN [@[k] EXCEPT !.is_just_stopped = 0] ELSE @[k]]]
  IN [cp |-> [cleared EXCEPT !.last_alive_thread_count = alive_thread_count],
      ev |-> EmitThreadFinishes(cp, ev, 0, n),
      lines |-> LinesOf(cp, heap, 0, n, TRUE)
                  \o LinesOf(cp, heap, 0, n, FALSE)]


(* ------------------------------- state -------------------------------- *)

VARIABLES
  fmt,        \* the format string given to cprogress_create
  created,    \* whether cprogress_create has returned
  mem,        \* which mallocs of cprogress_create succeeded, arena content
  blocks,     \* the state of the three blocks cprogress_create malloc'ed
  cprogress,  \* the cprogress_t instance
  line,       \* the last cprogress_writeline call: its arguments and effect
  heap,       \* the blocks malloc'ed for titles
  events,     \* what the subscribers have been called for
  rendered,   \* the lines of the cprogress_render call just made, else <<>>
  ret,        \* what the cprogress_stillrunning call just made returned,
              \* else NoRet
  ghost,      \* history: whether the user called cprogress_abort
              \* (abort_called), whether a poll found every task idle
              \* (idle_seen), the tasks updatePercentage stopped whose final
              \* line is not rendered yet (pending), those of them that were
              \* so when the current poll began (at_poll), whether a poll
              \* found every task idle with such a task (missed), whether
              \* a call accessed a slot address computed from a null task
              \* list (wild)
  prod,       \* per task slot, where its producer is in the call it makes
  cons        \* where the render loop is, and its locals

fmt_vars == <<fmt, created, mem, blocks, line>>
task_vars == <<heap, events, rendered, ret, ghost>>
conc_vars == <<prod, cons>>
vars == <<fmt, created, mem, blocks, cprogress, line, heap, events, rendered, ret,
          ghost, prod, cons>>

(* ------------------------------- inputs ------------------------------- *)

FmtAlphabet == {"$", "=", "2", "t", "b", "p", "q", "#"}

\* every format string over FmtAlphabet of at most MaxFmtLen characters
ShortFormats == UNION {[1..n -> FmtAlphabet] : n \in 0..MaxFmtLen}

\* the format of the header's example
SampleFmt ==
  <<"$", "=", "t", " ", "[", "$", "4", "0", "b", "#", "]", " ", "$", "p", "%">>

FmtPieces ==
  {<<>>, <<"$", "=", "t">>, <<"$", "2", "b", "#">>, <<"x">>, <<"$", "q">>}

\* a piece, k title directives, a piece, for k up to 1 and for k around the
\* chunk capacity
LongFormats ==
  {pre \o Concat([j \in 1..k |-> <<"$", "t">>]) \o post :
     pre \in FmtPieces, post \in FmtPieces,
     k \in {0, 1} \cup ((CPROGRESS_DISPLAYCHUNK_MAXLEN - 4)..MaxDirectives)}

Formats == ShortFormats \cup LongFormats \cup {SampleFmt}

\* the formats that are also rendered
RenderSamples ==
  {SampleFmt, <<"$", "=", "b", "#">>, <<"$", "2", "b", "#">>,
   <<"a", "$", "t", "b">>, <<"$", "2", "t", "$", "p">>,
   <<"$", "2", "b", "#", "$", "=", "t">>, <<"a", "b", "$", "=", "t", "c">>,
   <<"$", "4", "0", "b", "#">>}
RenderAlphabet == {"$", "=", "2", "t", "b", "#"}
RenderFormats ==
  UNION {[1..n -> RenderAlphabet] : n \in 0..MaxRenderFmtLen}
    \cup RenderSamples

\* the outcomes of the three mallocs of cprogress_create and the content of
\* the malloc'ed arena
AllocOk(m) == m.displaychunks /\ m.stralloc /\ m.threadinfos
MemOutcomes ==
  {m \in [displaychunks : BOOLEAN, stralloc : BOOLEAN, threadinfos : BOOLEAN,
          garbage : {NUL, "~"}] : m.threadinfos \/ m.garbage = NUL}
NoMem ==
  [displaychunks |-> FALSE, stralloc |-> FALSE, threadinfos |-> FALSE,
   garbage |-> NUL]

SampleTitle == <<"S", "i", "m", "p", "l", "e", " ", "t", "a", "s", "k">>
Titles == {NullStr, Str(<<>>), Str(<<"T">>), Str(SampleTitle)}
Percentages == {0, 3100, 10000}
ConsoleWidths == {20, 70}
BufLens == {10, 281}
\* the arguments of a cprogress_writeline call: every combination of the
\* above, and one call with a console width that makes it return at once
LineInputs ==
  [buf_len : BufLens, console_width : ConsoleWidths, title : Titles,
   percentage : Percentages]
    \cup {[buf_len |-> 10, console_width |-> 1, title |-> Str(<<"T">>),
           percentage |-> 0]}
ThreadCounts == {1}

\* the percentages given to updatePercentage: below 0, inside, 100, above,
\* and a NaN
TaskPercentages == {-500, 3100, 10000, 15000, NAN}

TaskTitle == <<"A", "B">>
TaskTitles == {NullStr, Str(TaskTitle)}

\* the thread_index arguments: every slot, and one index off either end
ThreadArgs == -1..ThreadCount

NoRet == -1

NoGhost ==
  [abort_called |-> FALSE, idle_seen |-> FALSE,
   pending |-> [i \in 0..(ThreadCount - 1) |-> FALSE],
   at_poll |-> [i \in 0..(ThreadCount - 1) |-> FALSE], missed |-> FALSE,
   wild |-> FALSE]

ProducerIdle == [pc |-> "idle", title |-> NullStr, percentage |-> 0]
ConsumerIdle ==
  [pc |-> "idle", k |-> 0, is_all_finished |-> 1, alive_thread_count |-> 0,
   final |-> FALSE, title |-> NULLPTR, percentage |-> 0, loaded |-> {}]

\* what the producers of the concurrent machine pass
ConcPercentages == {3100, 10000}
ConcTitles == {Str(TaskTitle)}

NoLine ==
  [called |-> FALSE, calls |-> 0, buf_len |-> 0, console_width |-> 0, title |-> NullStr,
   percentage |-> 0, returned_early |-> FALSE, taken_display_width |-> 0,
   autospan_width |-> 0, out |-> <<>>, ptr |-> 0, avail_length |-> 0,
   hi |-> 0]

(* --------------------- compile-and-render machine --------------------- *)

\* nothing has happened to the tasks, no producer and no render loop runs
TasksUntouched ==
  /\ heap = <<>>
  /\ events = NoEvents
  /\ rendered = <<>>
  /\ ret = NoRet
  /\ ghost = NoGhost
  /\ prod = [i \in 0..(ThreadCount - 1) |-> ProducerIdle]
  /\ cons = ConsumerIdle

NotCreated ==
  /\ created = FALSE
  /\ mem = NoMem
  /\ blocks = NoBlocks
  /\ cprogress = ErrorSession(CPROGRESS_ERROR_OK)
  /\ line = NoLine
  /\ TasksUntouched

InitCreate == fmt \in Formats /\ NotCreated

InitFmt == fmt \in RenderFormats /\ NotCreated

CreateStep ==
  /\ ~created
  /\ \E thread_count \in ThreadCounts, m \in MemOutcomes :
       \E r \in {CreateCall(fmt, thread_count, m)} :
          /\ mem' = m
          /\ cprogress' = r.cp
          /\ blocks' = r.blocks
  /\ created' = TRUE
  /\ UNCHANGED <<fmt, line, task_vars, conc_vars>>

\* cprogress_writeline on a session whose creation reported no error
WritelineStep ==
  /\ created
  /\ cprogress.error = CPROGRESS_ERROR_OK
  /\ line.calls < MaxLineCalls
  /\ \E in \in LineInputs :
       \E r \in {cprogress_writeline(cprogress, in.buf_len, in.console_width,
                                     in.title, in.percentage)} :
          /\ line' = [called |-> TRUE, calls |-> line.calls + 1,
                      buf_len |-> in.buf_len,
                      console_width |-> in.console_width, title |-> in.title,
                      percentage |-> in.percentage,
                      returned_early |-> r.returned_early,
                      taken_display_width |-> r.taken_display_width,
                      autospan_width |-> r.autospan_width,
                      out |-> r.out, ptr |-> r.ptr,
                      avail_length |-> r.avail_length, hi |-> r.hi]
          /\ cprogress' = [cprogress EXCEPT !.displaychunks.items = r.items]
  /\ UNCHANGED <<fmt, created, mem, blocks, task_vars, conc_vars>>

NextCreate == CreateStep

\* compiling any format
SpecCreate == InitCreate /\ [][NextCreate]_vars

NextFmt == CreateStep \/ WritelineStep

\* compiling and rendering
SpecFmt == InitFmt /\ [][NextFmt]_vars

(* ---------------------------- task machine ---------------------------- *)

\* The calls of the task API on one session, each call as a whole.

AllMem ==
  [displaychunks |-> TRUE, stralloc |-> TRUE, threadinfos |-> TRUE,
   garbage |-> NUL]

\* the session of the header's example, with a subscriber to each of the two
\* events the library emits
SampleSession ==
  cprogress_subscribeevent(
    cprogress_subscribeevent(cprogress_create(SampleFmt, ThreadCount, AllMem),
                             CPROGRESS_EVENT_THREADFINISH),
    CPROGRESS_EVENT_FINISH)

\* the blocks of that session
SampleBlocks == CreateCall(SampleFmt, ThreadCount, AllMem).blocks

InitTasks ==
  /\ fmt = SampleFmt
  /\ created = TRUE
  /\ mem = AllMem
  /\ blocks = SampleBlocks
  /\ cprogress = SampleSession
  /\ line = NoLine
  /\ TasksUntouched

\* what every call but cprogress_stillrunning and cprogress_render leaves of
\* the two outputs
NoOutput == ret' = NoRet /\ rendered' = <<>>

\* what a call on the slot thread_index adds to the history
SlotAccess(thread_index) ==
  ghost' = [ghost EXCEPT !.wild = @ \/ WildSlot(cprogress, thread_index)]

StartThread ==
  /\ \E thread_index \in ThreadArgs :
       LET r == cprogress_startthread(cprogress, heap, thread_index)
       IN cprogress' = r.cp /\ heap' = r.heap /\ SlotAccess(thread_index)
  /\ NoOutput
  /\ UNCHANGED <<fmt_vars, events, conc_vars>>

StartAllThreads ==
  /\ LET r == cprogress_startallthreads(cprogress, heap)
     IN cprogress' = r.cp /\ heap' = r.heap
  /\ NoOutput
  /\ UNCHANGED <<fmt_vars, events, ghost, conc_vars>>

AbortThread ==
  /\ \E thread_index \in ThreadArgs :
       /\ cprogress' = cprogress_abortthread(cprogress, thread_index)
       /\ SlotAccess(thread_index)
  /\ NoOutput
  /\ UNCHANGED <<fmt_vars, heap, events, conc_vars>>

UpdateThreadTitle ==
  /\ \E thread_index \in ThreadArgs, title \in TaskTitles :
       LET r == cprogress_updatethread_title(cprogress, heap, thread_index,
                                             title)
       IN /\ Len(r.heap) <= MaxBlocks
          /\ cprogress' = r.cp
          /\ heap' = r.heap
          /\ SlotAccess(thread_index)
  /\ NoOutput
  /\ UNCHANGED <<fmt_vars, events, conc_vars>>

UpdateThreadPercentage ==
  /\ \E thread_index \in ThreadArgs, percentage \in TaskPercentages :
       /\ cprogress' = cprogress_updatethread_percentage(cprogress,
                           thread_index, percentage)
       /\ SlotAccess(thread_index)
  /\ NoOutput
  /\ UNCHANGED <<fmt_vars, heap, events, conc_vars>>

\* cprogress_abort called by the user
Abort ==
  /\ cprogress' = cprogress_abort(cprogress)
  /\ ghost' = [ghost EXCEPT !.abort_called = TRUE]
  /\ NoOutput
  /\ UNCHANGED <<fmt_vars, heap, events, conc_vars>>

StillRunning ==
  LET r == cprogress_stillrunning(cprogress, events)
  IN /\ EventTotal(r.ev) <= MaxEvents
     /\ cprogress' = r.cp
     /\ events' = r.ev
     /\ ret' = r.ret
     /\ ghost' = [ghost EXCEPT
                    !.idle_seen = @ \/ r.is_all_finished # 0]
     /\ rendered' = <<>>
     /\ UNCHANGED <<fmt_vars, heap, conc_vars>>

Render ==
  LET r == cprogress_render(cprogress, heap, events)
  IN /\ EventTotal(r.ev) <= MaxEvents
     /\ cprogress' = r.cp
     /\ events' = r.ev
     /\ rendered' = r.lines
     /\ ret' = NoRet
     /\ UNCHANGED <<fmt_vars, heap, ghost, conc_vars>>

Next ==
  \/ StartThread
  \/ StartAllThreads
  \/ AbortThread
  \/ UpdateThreadTitle
  \/ UpdateThreadPercentage
  \/ Abort
  \/ StillRunning
  \/ Render

Spec == InitTasks /\ [][Next]_vars

\* cprogress_destroy called by the user
Destroy ==
  /\ \E r \in {cprogress_destroy(cprogress, blocks)} :
       cprogress' = r.cp /\ blocks' = r.blocks
  /\ NoOutput
  /\ UNCHANGED <<fmt, created, mem, line, heap, events, ghost, conc_vars>>

NextTeardown ==
  \/ Destroy
  \/ StartThread
  \/ AbortThread
  \/ UpdateThreadTitle
  \/ UpdateThreadPercentage

NextTick ==
  \/ StartThread
  \/ AbortThread
  \/ UpdateThreadPercentage
  \/ StillRunning
  \/ Render

\* the calls that start and stop tasks, and the render loop's two calls
SpecTick == InitTasks /\ [][NextTick]_vars

\* the per-task calls on a session that the user may tear down
SpecTeardown == InitTasks /\ [][NextTeardown]_vars

(* ------------------------ claims on the format ------------------------ *)

\* the chunks of the instance before the sentinel
Chunks(cp) ==
  SubSeq(cp.displaychunks.items, 1,
         ChunksBeforeSentinel(cp.displaychunks.items, 1))

Compiled == created /\ cprogress.error = CPROGRESS_ERROR_OK

\* whether seq holds sub as a contiguous run
Contains(seq, sub) ==
  \E k \in 0..(Len(seq) - Len(sub)) : SubSeq(seq, k + 1, k + Len(sub)) = sub

\* A reading of the format language that is independent of cprogress_create:
\* the positions of the `$` that begin a directive, the width part being the
\* run of digits and `=` after the `$`, then the conversion letter, then for
\* `b` the fill character.  A `$` directly after a `$` that was consumed as a
\* fill character is literal text.
RECURSIVE WidthEnd(_, _)
WidthEnd(f, i) ==
  IF At(f, i) \in Digits \cup {"="} THEN WidthEnd(f, i + 1) ELSE i

RECURSIVE DirectiveStarts(_, _, _)
DirectiveStarts(f, i, last) ==
  IF i > Len(f) THEN {}
  ELSE IF f[i] = "$" /\ last # "$"
  THEN LET j == WidthEnd(f, i + 1)
           e == IF At(f, j) = "b" /\ At(f, j + 1) # NUL THEN j + 1 ELSE j
       IN {i} \cup DirectiveStarts(f, e + 1, At(f, e))
  ELSE DirectiveStarts(f, i + 1, f[i])

\* the positions of the auto-span markers: each `=` in the width part of a
\* directive
AutoSpanMarks(f) ==
  {i \in 1..Len(f) :
     /\ f[i] = "="
     /\ \E j \in DirectiveStarts(f, 1, NUL) : j < i /\ WidthEnd(f, j + 1) > i}

\* the directive that holds the second auto-span marker, and the text
\* before it
SecondMarkDirective(f) ==
  LET second == CHOOSE i \in AutoSpanMarks(f) :
                  Cardinality({k \in AutoSpanMarks(f) : k < i}) = 1
  IN CHOOSE j \in DirectiveStarts(f, 1, NUL) :
       j < second /\ WidthEnd(f, j + 1) > second
TextBeforeSecondMark(f) == SubSeq(f, 1, SecondMarkDirective(f) - 1)

\* C1 (as claimed): cprogress_writeline writes only buf[0 .. buf_len-1]: the
\* cursor never passes buf_len and the remaining capacity never goes below
\* zero.  Stated here for the formats whose Bar chunks all have a fixed or an
\* auto-span width.
C1_WritesStayInBuffer ==
  (/\ Compiled
   /\ line.called
   /\ \A k \in 1..Len(Chunks(cprogress)) :
        Chunks(cprogress)[k].type = CPROGRESS_DISPLAYCHUNK_BAR
          => \/ Chunks(cprogress)[k].span_width # UNDEF_SZ
             \/ Chunks(cprogress)[k].is_autospan # 0)
  => /\ line.hi <= line.buf_len
     /\ line.ptr <= line.buf_len
     /\ line.avail_length = line.buf_len - line.ptr

\* C6 (as claimed): no compiled format contains a Bar chunk whose span width
\* is undefined and whose auto-span flag is unset (cprogress_create fails
\* with CPROGRESS_ERROR_INVAL instead).
C6_BarHasWidth ==
  Compiled =>
    \A k \in 1..Len(Chunks(cprogress)) :
      Chunks(cprogress)[k].type = CPROGRESS_DISPLAYCHUNK_BAR
        => \/ Chunks(cprogress)[k].span_width # UNDEF_SZ
           \/ Chunks(cprogress)[k].is_autospan # 0

Bar40At31 == Repeat("#", 12) \o Repeat(" ", 28)

\* C8 (as claimed): "$=t [$40b#] $p%" rendered at width 70 with title
\* "Simple task" and percentage 31.0 into a large enough buffer holds the Bar
\* segment of 12 '#' and 28 spaces and the Percentage segment "31.00"
\* followed by the literal '%'.
C8_SampleLine ==
  (/\ Compiled
   /\ fmt = SampleFmt
   /\ line.called
   /\ line.buf_len = 281
   /\ line.console_width = 70
   /\ line.title = Str(SampleTitle)
   /\ line.percentage = 3100)
  => /\ Contains(line.out, <<"[">> \o Bar40At31 \o <<"]">>)
     /\ Contains(line.out, <<"3", "1", ".", "0", "0", "%">>)


(* -------------------------- concurrent machine ------------------------ *)

\* One producer per task slot calls start, abort, updateTitle and
\* updatePercentage; the render loop runs cprogress_render_tillcomplete.  A
\* step is one read or write of memory another thread accesses; what a
\* thread does to memory only it writes goes with its next such step.

ConcSlots == 0..(ConcThreadCount - 1)

ConcSession ==
  cprogress_subscribeevent(
    cprogress_subscribeevent(
      cprogress_create(SampleFmt, ConcThreadCount, AllMem),
      CPROGRESS_EVENT_THREADFINISH),
    CPROGRESS_EVENT_FINISH)

InitConc ==
  /\ fmt = SampleFmt
  /\ created = TRUE
  /\ mem = AllMem
  /\ blocks = SampleBlocks
  /\ cprogress = ConcSession
  /\ line = NoLine
  /\ heap = <<>>
  /\ events = NoEvents
  /\ rendered = <<>>
  /\ ret = NoRet
  /\ ghost = NoGhost
  /\ prod = [i \in 0..(ThreadCount - 1) |-> ProducerIdle]
  /\ cons = [ConsumerIdle EXCEPT !.pc = "poll_running"]

\* threadinfos[i].f = v
WriteSlot(i, f, v) ==
  cprogress' = SetThreadInfo(cprogress, i,
                 [GetThreadInfo(cprogress, i) EXCEPT ![f] = v])

\* the producer of slot i moves to pc
Goto(i, pc) == prod' = [prod EXCEPT ![i].pc = pc]

\* cprogress_threadinfo_start: free(title) if there is one
ProdStart(i) ==
  /\ prod[i].pc = "idle"
  /\ heap' = IF GetThreadInfo(cprogress, i).title # NULLPTR
             THEN Free(heap, GetThreadInfo(cprogress, i).title) ELSE heap
  /\ Goto(i, "start_title")
  /\ rendered' = <<>>
  /\ UNCHANGED <<fmt_vars, cprogress, events, ret, ghost, cons>>

\* title = NULL
ProdStartTitle(i) ==
  /\ prod[i].pc = "start_title"
  /\ WriteSlot(i, "title", NULLPTR)
  /\ Goto(i, "start_percentage")
  /\ rendered' = <<>>
  /\ UNCHANGED <<fmt_vars, heap, events, ret, ghost, cons>>

\* percentage = 0
ProdStartPercentage(i) ==
  /\ prod[i].pc = "start_percentage"
  /\ WriteSlot(i, "percentage", 0)
  /\ Goto(i, "start_running")
  /\ rendered' = <<>>
  /\ UNCHANGED <<fmt_vars, heap, events, ret, ghost, cons>>

\* is_running = 1
ProdStartRunning(i) ==
  /\ prod[i].pc = "start_running"
  /\ WriteSlot(i, "is_running", 1)
  /\ Goto(i, "idle")
  /\ rendered' = <<>>
  /\ UNCHANGED <<fmt_vars, heap, events, ret, ghost, cons>>

\* cprogress_threadinfo_abort: is_running = 0
ProdAbort(i) ==
  /\ prod[i].pc = "idle"
  /\ WriteSlot(i, "is_running", 0)
  /\ Goto(i, "abort_stopped")
  /\ rendered' = <<>>
  /\ UNCHANGED <<fmt_vars, heap, events, ret, ghost, cons>>

\* is_just_stopped = 1
ProdAbortStopped(i) ==
  /\ prod[i].pc = "abort_stopped"
  /\ WriteSlot(i, "is_just_stopped", 1)
  /\ Goto(i, "idle")
  /\ rendered' = <<>>
  /\ UNCHANGED <<fmt_vars, heap, events, ret, ghost, cons>>

\* cprogress_threadinfo_updatetitle on a running task: free(previous_title)
ProdUpdateTitle(i) ==
  /\ prod[i].pc = "idle"
  /\ GetThreadInfo(cprogress, i).is_running # 0
  /\ Len(heap) < MaxBlocks
  /\ \E title \in ConcTitles :
       prod' = [prod EXCEPT ![i].pc = "title_assign", ![i].title = title]
  /\ heap' = IF GetThreadInfo(cprogress, i).title # NULLPTR
             THEN Free(heap, GetThreadInfo(cprogress, i).title) ELSE heap
  /\ rendered' = <<>>
  /\ UNCHANGED <<fmt_vars, cprogress, events, ret, ghost, cons>>

\* title = cprogress_strdup(title)
ProdTitleAssign(i) ==
  /\ prod[i].pc = "title_assign"
  /\ LET d == cprogress_strdup(heap, prod[i].title)
     IN heap' = d.heap /\ WriteSlot(i, "title", d.ret)
  /\ prod' = [prod EXCEPT ![i] = ProducerIdle]
  /\ rendered' = <<>>
  /\ UNCHANGED <<fmt_vars, events, ret, ghost, cons>>

\* cprogress_threadinfo_updatepercentage on a running task with a value
\* below 100: percentage = the value, 0 if it is negative
ProdUpdatePercentage(i) ==
  /\ prod[i].pc = "idle"
  /\ GetThreadInfo(cprogress, i).is_running # 0
  /\ \E percentage \in ConcPercentages :
       /\ ~FloatGE(percentage, 10000)
       /\ WriteSlot(i, "percentage",
                    IF FloatLT(percentage, 0) THEN 0 ELSE percentage)
  /\ rendered' = <<>>
  /\ UNCHANGED <<fmt_vars, heap, events, ret, ghost, prod, cons>>

\* cprogress_threadinfo_updatepercentage on a running task with a value of
\* 100 or more: percentage = 100 locally, then the is_running = 0 of
\* cprogress_threadinfo_abort
ProdUpdatePercentageFull(i) ==
  /\ prod[i].pc = "idle"
  /\ GetThreadInfo(cprogress, i).is_running # 0
  /\ \E percentage \in ConcPercentages :
       /\ FloatGE(percentage, 10000)
       /\ prod' = [prod EXCEPT ![i].pc = "percentage_stopped",
                               ![i].percentage = 10000]
  /\ WriteSlot(i, "is_running", 0)
  /\ ghost' = [ghost EXCEPT !.pending[i] = TRUE]
  /\ rendered' = <<>>
  /\ UNCHANGED <<fmt_vars, heap, events, ret, cons>>

\* is_just_stopped = 1
ProdPercentageStopped(i) ==
  /\ prod[i].pc = "percentage_stopped"
  /\ WriteSlot(i, "is_just_stopped", 1)
  /\ Goto(i, "percentage_store")
  /\ rendered' = <<>>
  /\ UNCHANGED <<fmt_vars, heap, events, ret, ghost, cons>>

\* percentage = 100
ProdPercentageStore(i) ==
  /\ prod[i].pc = "percentage_store"
  /\ WriteSlot(i, "percentage", prod[i].percentage)
  /\ prod' = [prod EXCEPT ![i] = ProducerIdle]
  /\ rendered' = <<>>
  /\ UNCHANGED <<fmt_vars, heap, events, ret, ghost, cons>>

Producer(i) ==
  \/ ProdStart(i)
  \/ ProdStartTitle(i)
  \/ ProdStartPercentage(i)
  \/ ProdStartRunning(i)
  \/ ProdAbort(i)
  \/ ProdAbortStopped(i)
  \/ ProdUpdateTitle(i)
  \/ ProdTitleAssign(i)
  \/ ProdUpdatePercentage(i)
  \/ ProdUpdatePercentageFull(i)
  \/ ProdPercentageStopped(i)
  \/ ProdPercentageStore(i)

\* the number of task slots the loops of the render loop visit
SlotCount == Cardinality(ThreadIndexes(cprogress))

\* the slot the render loop is at
ConsSlot == GetThreadInfo(cprogress, cons.k)

\* the locals of the render loop when it enters a loop over the slots
EnterLoop(pc) == [ConsumerIdle EXCEPT !.pc = pc,
                    !.alive_thread_count = cons.alive_thread_count]

\* the render loop goes to the next slot of its loop, or past the loop
NextSlot(pc, after) ==
  IF cons.k + 1 < SlotCount
  THEN [EnterLoop(pc) EXCEPT !.k = cons.k + 1,
                             !.is_all_finished = cons.is_all_finished]
  ELSE after

\* what reading the string at title can give: the bytes of the block, or,
\* if the block was freed, anything
TitleReads(p) ==
  IF p = NULLPTR THEN {NullStr}
  ELSE IF heap[p].freed THEN {TitleStr(heap, p), Str(<<"~">>)}
  ELSE {TitleStr(heap, p)}

\* cprogress_stillrunning, the loop: threadinfo->is_running
ConsPollRunning ==
  /\ cons.pc = "poll_running"
  /\ cons' = IF ConsSlot.is_running # 0
             THEN [cons EXCEPT !.is_all_finished = 0, !.pc = "poll_end"]
             ELSE [cons EXCEPT !.pc = "poll_stopped"]
  /\ ghost' = IF cons.k = 0 THEN [ghost EXCEPT !.at_poll = ghost.pending]
              ELSE ghost
  /\ rendered' = <<>>
  /\ UNCHANGED <<fmt_vars, cprogress, heap, events, ret, prod>>

\* || threadinfo->is_just_stopped; past the last slot every task was idle
ConsPollStopped ==
  /\ cons.pc = "poll_stopped"
  /\ IF ConsSlot.is_just_stopped # 0
     THEN /\ cons' = [cons EXCEPT !.is_all_finished = 0, !.pc = "poll_end"]
          /\ ghost' = ghost
     ELSE /\ cons' = NextSlot("poll_running", [cons EXCEPT !.pc = "poll_end"])
          /\ ghost' = IF cons.k + 1 < SlotCount THEN ghost
                      ELSE [ghost EXCEPT
                              !.idle_seen = TRUE,
                              !.missed = @ \/ \E i \in ConcSlots :
                                                /\ ghost.at_poll[i]
                                                /\ ghost.pending[i]]
  /\ rendered' = <<>>
  /\ UNCHANGED <<fmt_vars, cprogress, heap, events, ret, prod>>

\* the rest of cprogress_stillrunning, on members of the session that only
\* the render loop accesses, and the test of the while
ConsPollEnd ==
  /\ cons.pc = "poll_end"
  /\ LET cp1 == IF cons.is_all_finished # 0 THEN cprogress_abort(cprogress)
                ELSE cprogress
         ev1 == IF cp1.is_running = 0
                THEN cprogress_emitevent(cp1, events, CPROGRESS_EVENT_FINISH,
                                         CPROGRESS_UNDEF)
                ELSE events
     IN /\ EventTotal(ev1) <= MaxEvents
        /\ cprogress' = cp1
        /\ events' = ev1
        /\ ret' = cp1.is_running
        /\ cons' = IF cp1.is_running = 0
                   THEN [ConsumerIdle EXCEPT !.pc = "done"]
                   ELSE [ConsumerIdle EXCEPT !.pc = "count"]
  /\ rendered' = <<>>
  /\ UNCHANGED <<fmt_vars, heap, ghost, prod>>

\* cprogress_render, counting: threadinfo->is_running
ConsCount ==
  /\ cons.pc = "count"
  /\ LET alive == cons.alive_thread_count
                    + (IF ConsSlot.is_running # 0 THEN 1 ELSE 0)
     IN cons' = [NextSlot("count", EnterLoop("final")) EXCEPT
                   !.alive_thread_count = alive]
  /\ rendered' = <<>>
  /\ UNCHANGED <<fmt_vars, cprogress, heap, events, ret, ghost, prod>>

\* the pass over the just-stopped tasks: threadinfo->is_just_stopped
ConsFinal ==
  /\ cons.pc = "final"
  /\ cons' = IF ConsSlot.is_just_stopped # 0
             THEN [cons EXCEPT !.pc = "final_clear"]
             ELSE NextSlot("final", EnterLoop("running"))
  /\ rendered' = <<>>
  /\ UNCHANGED <<fmt_vars, cprogress, heap, events, ret, ghost, prod>>

\* threadinfo->is_just_stopped = 0
ConsFinalClear ==
  /\ cons.pc = "final_clear"
  /\ WriteSlot(cons.k, "is_just_stopped", 0)
  /\ cons' = [cons EXCEPT !.pc = "load", !.final = TRUE]
  /\ rendered' = <<>>
  /\ UNCHANGED <<fmt_vars, heap, events, ret, ghost, prod>>

\* the pass over the running tasks: threadinfo->is_running
ConsRunning ==
  /\ cons.pc = "running"
  /\ IF ConsSlot.is_running # 0
     THEN /\ cons' = [cons EXCEPT !.pc = "load", !.final = FALSE]
          /\ cprogress' = cprogress
     ELSE /\ cons' = NextSlot("running", EnterLoop("poll_running"))
          /\ cprogress' =
               IF cons.k + 1 < SlotCount THEN cprogress
               ELSE [cprogress EXCEPT !.last_alive_thread_count =
                                        cons.alive_thread_count]
  /\ rendered' = <<>>
  /\ UNCHANGED <<fmt_vars, heap, events, ret, ghost, prod>>

\* the arguments of cprogress_renderline, in either order: threadinfo->title
ConsLoadTitle ==
  /\ cons.pc = "load"
  /\ "title" \notin cons.loaded
  /\ cons' = [cons EXCEPT !.title = ConsSlot.title,
                          !.loaded = @ \cup {"title"},
                          !.pc = IF "percentage" \in cons.loaded
                                 THEN "line" ELSE "load"]
  /\ rendered' = <<>>
  /\ UNCHANGED <<fmt_vars, cprogress, heap, events, ret, ghost, prod>>

\* threadinfo->percentage
ConsLoadPercentage ==
  /\ cons.pc = "load"
  /\ "percentage" \notin cons.loaded
  /\ cons' = [cons EXCEPT !.percentage = ConsSlot.percentage,
                          !.loaded = @ \cup {"percentage"},
                          !.pc = IF "title" \in cons.loaded
                                 THEN "line" ELSE "load"]
  /\ rendered' = <<>>
  /\ UNCHANGED <<fmt_vars, cprogress, heap, events, ret, ghost, prod>>

\* cprogress_renderline reads the title and prints the line; for a
\* just-stopped task THREADFINISH follows; then the next slot of the pass,
\* and past the running pass last_alive_thread_count and the next poll
ConsLine ==
  /\ cons.pc = "line"
  /\ \E str \in TitleReads(cons.title) :
       rendered' =
         <<[thread_index |-> ConsSlot.thread_index, title |-> str,
            percentage |-> cons.percentage, final |-> cons.final,
            released |-> cons.title # NULLPTR /\ heap[cons.title].freed]>>
  /\ events' = IF cons.final
               THEN cprogress_emitevent(cprogress, events,
                      CPROGRESS_EVENT_THREADFINISH, ConsSlot.thread_index)
               ELSE events
  /\ EventTotal(events') <= MaxEvents
  /\ ghost' = IF cons.final THEN [ghost EXCEPT !.pending[cons.k] = FALSE]
              ELSE ghost
  /\ cons' = IF cons.final THEN NextSlot("final", EnterLoop("running"))
             ELSE NextSlot("running", EnterLoop("poll_running"))
  /\ cprogress' =
       IF cons.final \/ cons.k + 1 < SlotCount THEN cprogress
       ELSE [cprogress EXCEPT !.last_alive_thread_count =
                                cons.alive_thread_count]
  /\ UNCHANGED <<fmt_vars, heap, ret, prod>>

Consumer ==
  \/ ConsPollRunning
  \/ ConsPollStopped
  \/ ConsPollEnd
  \/ ConsCount
  \/ ConsFinal
  \/ ConsFinalClear
  \/ ConsRunning
  \/ ConsLoadTitle
  \/ ConsLoadPercentage
  \/ ConsLine

NextConc == Consumer \/ \E i \in ConcSlots : Producer(i)

SpecConc == InitConc /\ [][NextConc]_vars

(* ------------------------- claims on the tasks ------------------------ *)

Slots == 0..(ThreadCount - 1)

\* some task is running or just stopped
SomeTaskActive ==
  \E i \in Slots : \/ GetThreadInfo(cprogress, i).is_running # 0
                   \/ GetThreadInfo(cprogress, i).is_just_stopped # 0

\* C4: over any sequence of polls the subscriber of Finish is called at most
\* once.
C4_FinishOnce == events.finish <= 1

\* C5: right after a poll, the value returned is 0 exactly if the user
\* called cprogress_abort or this or an earlier poll found every task idle;
\* after a call of cprogress_abort it is 0 whatever the tasks are; and it
\* is 1 while some task is running or just stopped and cprogress_abort was
\* called neither by the user nor by a poll that found every task idle.
C5_PollResult ==
  ret # NoRet =>
    /\ (ret = 0) <=> (ghost.abort_called \/ ghost.idle_seen)
    /\ ghost.abort_called => ret = 0
    /\ (SomeTaskActive /\ ~ghost.abort_called /\ ~ghost.idle_seen) => ret = 1

\* a poll returned 0 after the user's abort although a task is running and
\* no poll found every task idle
C5_Witness ==
  /\ ret = 0
  /\ ghost.abort_called
  /\ ~ghost.idle_seen
  /\ \E i \in Slots : GetThreadInfo(cprogress, i).is_running # 0

\* C9: a call of updatePercentage with v on a running task stores
\* min(max(v,0),100), a percentage in [0,100]; the task stops (not running,
\* just stopped) if v >= 100 and stays running otherwise; on a task that is
\* not running the call changes nothing.
C9_UpdatePercentage ==
  [][\A i \in Slots, v \in TaskPercentages :
       (cprogress' = cprogress_updatethread_percentage(cprogress, i, v)) =>
         LET old == GetThreadInfo(cprogress, i)
             new == GetThreadInfo(cprogress', i)
         IN IF old.is_running = 0 THEN new = old
            ELSE /\ new.percentage # NAN
                 /\ new.percentage >= 0
                 /\ new.percentage <= 10000
                 /\ v # NAN => new.percentage = Min(Max(v, 0), 10000)
                 /\ FloatGE(v, 10000) =>
                      new.is_running = 0 /\ new.is_just_stopped = 1
                 /\ ~FloatGE(v, 10000) => new.is_running # 0]_vars

\* C10: a call of start leaves the task with no title, percentage 0,
\* running, and no pending just-stopped flag, whatever the task was before.
C10_StartResets ==
  [][\A i \in Slots :
       (/\ cprogress' = cprogress_startthread(cprogress, heap, i).cp
        /\ heap' = cprogress_startthread(cprogress, heap, i).heap) =>
         LET new == GetThreadInfo(cprogress', i)
         IN /\ new.title = NULLPTR
            /\ new.percentage = 0
            /\ new.is_running = 1
            /\ new.is_just_stopped = 0]_vars

(* -------------------- claims on concurrent producers ------------------ *)

\* C2: under every interleaving the render loop never reads a title whose
\* block updateTitle or start has freed.
C2_NoReleasedTitleRead == \A i \in 1..Len(rendered) : ~rendered[i].released

\* C3: no poll that begins after updatePercentage with a value of 100 or
\* more has stopped a running task finds every task idle before the final
\* line of that task has been rendered.
C3_StopObservedBeforeFinish == ~ghost.missed

(* ----------------------- claims on error returns --------------------- *)

\* the directives whose conversion letter is a letter other than t, b, p
UnknownLetterDirectives(f) ==
  {i \in DirectiveStarts(f, 1, NUL) :
     At(f, WidthEnd(f, i + 1)) \in (Lower \cup Upper) \ {"t", "b", "p"}}

\* the text before the first such directive
TextBeforeUnknownLetter(f) ==
  SubSeq(f, 1, (CHOOSE i \in UnknownLetterDirectives(f) :
                  \A j \in UnknownLetterDirectives(f) : i <= j) - 1)

\* the instance returned holds no block, no task and is not running
NothingKept ==
  /\ cprogress.displaychunks.null
  /\ cprogress.stralloc.buffer.null
  /\ cprogress.threadinfos.null
  /\ cprogress.threadinfos_length = 0
  /\ cprogress.displaychunks_length = 0
  /\ cprogress.is_running = 0

\* the three blocks were malloc'ed and freed once, with no access outside
\* them, and the instance returned holds none of them
NothingHeld ==
  /\ blocks.displaychunks = "freed"
  /\ blocks.stralloc = "freed"
  /\ blocks.threadinfos = "freed"
  /\ ~blocks.overrun
  /\ NothingKept

TornDown == blocks.threadinfos = "freed"

\* C12 (as claimed): the four per-task calls return their instance (and the
\* title heap) unchanged for an index outside [0, threadinfos_length), and on
\* a session torn down by cprogress_destroy they change nothing and access
\* no task slot, whatever the index.
C12_IgnoredCalls ==
  [][/\ \A i \in ThreadArgs :
          IndexRejected(cprogress, i) =>
            /\ cprogress_startthread(cprogress, heap, i).cp = cprogress
            /\ cprogress_startthread(cprogress, heap, i).heap = heap
            /\ cprogress_abortthread(cprogress, i) = cprogress
            /\ \A title \in TaskTitles :
                 /\ cprogress_updatethread_title(cprogress, heap, i, title).cp
                      = cprogress
                 /\ cprogress_updatethread_title(cprogress, heap, i, title).heap
                      = heap
            /\ \A v \in TaskPercentages :
                 cprogress_updatethread_percentage(cprogress, i, v) = cprogress
     /\ TornDown =>
          /\ cprogress' = cprogress
          /\ heap' = heap
          /\ ~ghost'.wild]_vars

(* ----------------------- claims on literal text ----------------------- *)

\* The same independent reading of the format language: the last position
\* of the directive that begins at i, the positions inside directives, and
\* the maximal runs of text outside them
DirectiveEnd(f, i) ==
  LET j == WidthEnd(f, i + 1)
  IN IF At(f, j) = "b" /\ At(f, j + 1) # NUL THEN j + 1 ELSE j

InDirective(f, p) ==
  \E i \in DirectiveStarts(f, 1, NUL) : i <= p /\ p <= DirectiveEnd(f, i)

LiteralRuns(f) ==
  {SubSeq(f, a, b) : <<a, b>> \in
     {ab \in (1..Len(f)) \X (1..Len(f)) :
        /\ ab[1] <= ab[2]
        /\ \A p \in ab[1]..ab[2] : ~InDirective(f, p)
        /\ ab[1] = 1 \/ InDirective(f, ab[1] - 1)
        /\ ab[2] = Len(f) \/ InDirective(f, ab[2] + 1)}}

\* the characters a Literal chunk points to in the arena
ArenaText(cp, displaychunk) ==
  SubSeq(cp.stralloc.buffer.items, displaychunk.literal,
         displaychunk.literal + displaychunk.literal_length - 1)

\* C13 (as claimed): for a compiled format rendered into a buffer that is
\* large enough, every Literal chunk points into the arena at a copy of its
\* text, every maximal run of text outside the directives appears verbatim
\* in the line, and a format of literal text only renders as itself.
C13_LiteralsVerbatim ==
  (/\ Compiled
   /\ line.called
   /\ ~line.returned_early
   /\ line.buf_len = 281)
  => /\ \A k \in 1..Len(Chunks(cprogress)) :
          Chunks(cprogress)[k].type = CPROGRESS_DISPLAYCHUNK_LITERAL
            => /\ Chunks(cprogress)[k].literal # NULLPTR
               /\ ArenaText(cprogress, Chunks(cprogress)[k])
                    \in LiteralRuns(fmt)
     /\ \A run \in LiteralRuns(fmt) : Contains(line.out, run)
     /\ DirectiveStarts(fmt, 1, NUL) = {} => line.out = fmt

(* ------------------------ claims on title copies ---------------------- *)

\* C14 (as claimed): cprogress_updatethread_title with a non-null text on a
\* running task leaves the task with a block of its own that holds the text
\* and its terminator inside the size malloc'ed for it; the title the task
\* owned before, if any, is a block that was live and is freed by the call.
C14_TitleCopyInBlock ==
  [][\A i \in Slots, title \in TaskTitles \ {NullStr} :
       (/\ GetThreadInfo(cprogress, i).is_running # 0
        /\ cprogress'
             = cprogress_updatethread_title(cprogress, heap, i, title).cp
        /\ heap' = cprogress_updatethread_title(cprogress, heap, i, title).heap
        /\ heap' # heap)
       => /\ GetThreadInfo(cprogress', i).title # NULLPTR
          /\ GetThreadInfo(cprogress', i).title > Len(heap)
          /\ ~heap'[GetThreadInfo(cprogress', i).title].freed
          /\ TitleStr(heap', GetThreadInfo(cprogress', i).title) = title
          /\ Len(heap'[GetThreadInfo(cprogress', i).title].bytes)
               <= heap'[GetThreadInfo(cprogress', i).title].size
          /\ GetThreadInfo(cprogress, i).title # NULLPTR
               => /\ ~heap[GetThreadInfo(cprogress, i).title].freed
                  /\ heap'[GetThreadInfo(cprogress, i).title].freed]_vars

(* ----------------------- claims on the measure pass ------------------- *)

\* the sum of the display widths of the chunks that are not auto-span
RECURSIVE TakenWidth(_)
TakenWidth(chunks) ==
  IF chunks = <<>> THEN 0
  ELSE (IF Head(chunks).is_autospan # 0 THEN 0 ELSE Head(chunks).display_width)
       + TakenWidth(Tail(chunks))

\* C15 (as claimed): after the measure pass of cprogress_writeline every
\* chunk that is not auto-span and has no fixed width has as display width
\* the stored text length (Literal), the length of the title, 0 for a null
\* title (Title), the length of the formatted percentage (Percentage);
\* taken is the sum of the widths of the chunks that are not auto-span and
\* the auto-span width is max(0, console_width - taken).
C15_MeasuredWidths ==
  (Compiled /\ line.called /\ ~line.returned_early)
  => /\ \A k \in 1..Len(Chunks(cprogress)) :
          (/\ Chunks(cprogress)[k].is_autospan = 0
           /\ Chunks(cprogress)[k].span_width = UNDEF_SZ)
          => /\ Chunks(cprogress)[k].type = CPROGRESS_DISPLAYCHUNK_LITERAL
                  => Chunks(cprogress)[k].display_width
                       = Chunks(cprogress)[k].literal_length
             /\ Chunks(cprogress)[k].type = CPROGRESS_DISPLAYCHUNK_TITLE
                  => Chunks(cprogress)[k].display_width
                       = (IF line.title.null THEN 0
                          ELSE strlen(line.title))
             /\ Chunks(cprogress)[k].type = CPROGRESS_DISPLAYCHUNK_PERCENTAGE
                  => Chunks(cprogress)[k].display_width
                       = Len(cprogress_sprintpercentage(line.percentage))
     /\ line.taken_display_width = SizeT(TakenWidth(Chunks(cprogress)))
     /\ line.autospan_width
          = Max(0, line.console_width - line.taken_display_width)

(* ------------------------ claims on the render tick ------------------- *)

\* the step is a cprogress_render call
RenderStep ==
  /\ heap' = heap
  /\ ret' = NoRet
  /\ events' = cprogress_render(cprogress, heap, events).ev
  /\ cprogress' = cprogress_render(cprogress, heap, events).cp
  /\ rendered' = cprogress_render(cprogress, heap, events).lines

\* the final lines of task i among the lines of the tick just made
FinalLinesOf(lines, i) ==
  Cardinality({k \in 1..Len(lines) :
                 lines[k].final /\ lines[k].thread_index = i})

\* C16: a cprogress_render call renders one final line for each task that is
\* just-stopped when it begins and none for the others, clears the
\* just-stopped flag of every task, leaves is_running as it is and adds one
\* THREADFINISH carrying the task index for each just-stopped task and none
\* for the others; no other call emits THREADFINISH; cprogress_abortthread
\* leaves its task not running and just-stopped.  So after abort and one
\* render the task is neither running nor just-stopped, and a stop yields
\* one THREADFINISH, at the next render, and none at the renders after it.
C16_RenderTick ==
  [][\A i \in Slots :
       /\ RenderStep =>
            /\ GetThreadInfo(cprogress', i).is_just_stopped = 0
            /\ GetThreadInfo(cprogress', i).is_running
                 = GetThreadInfo(cprogress, i).is_running
            /\ events'.threadfinish[i]
                 = events.threadfinish[i]
                     + (IF GetThreadInfo(cprogress, i).is_just_stopped # 0
                        THEN 1 ELSE 0)
            /\ FinalLinesOf(rendered', i)
                 = (IF GetThreadInfo(cprogress, i).is_just_stopped # 0
                    THEN 1 ELSE 0)
       /\ ~RenderStep => events'.threadfinish[i] = events.threadfinish[i]
       /\ cprogress' = cprogress_abortthread(cprogress, i) =>
            /\ GetThreadInfo(cprogress', i).is_running = 0
            /\ GetThreadInfo(cprogress', i).is_just_stopped # 0]_vars

\* C16 witness: a tick has just rendered the final line of a stopped task:
\* its THREADFINISH was emitted and the task is neither running nor
\* just-stopped
C16_Witness ==
  \E i \in Slots :
    /\ FinalLinesOf(rendered, i) = 1
    /\ events.threadfinish[i] = 1
    /\ GetThreadInfo(cprogress, i).is_running = 0
    /\ GetThreadInfo(cprogress, i).is_just_stopped = 0

(* ------------------- claims on the concurrent final line --------------- *)

\* the render loop prints the final line of a task whose stop came from a
\* cprogress_updatethread_percentage call with a value of 100 or more
FinalLineOfFullTask ==
  /\ cons.pc = "line"
  /\ cons.final
  /\ ghost.pending[cons.k]
  /\ Len(rendered') = 1

\* C17: when cprogress_updatethread_percentage with a value of 100 or more
\* stops a task while the render loop runs, the final line that the render
\* loop prints for the task, the one that goes with its THREADFINISH, shows
\* 100: in no interleaving of the writes of the call with the reads of the
\* render loop does the final line carry the percentage from before the call.
C17_FinalLineShowsFull ==
  [][FinalLineOfFullTask => rendered'[1].percentage = 10000]_vars

====
